---- MODULE Spec2Model ----
(***************************************************************************)
(* Lumina ESP32 LED controller firmware (led_controller.ino): the device   *)
(* state, the command processor, the state reporter, the effect engine,    *)
(* the connectivity loops and the control loop, as one state machine.      *)
(***************************************************************************)
EXTENDS Integers, Sequences, FiniteSets, TLC

\* ------------------------------------------------------------------ bounds
\* Strip length of the model (the build uses 200 pixels).  At least 7: the
\* status indication writes pixels 0..4 and the fire effect sparks 0..6.
NUM_LEDS == 7
\* Commands delivered in one run of the control loop.
MaxCommands == 2
\* Effect ticks in one run of the control loop.
MaxTicks == 3
\* Number of times the environment changes the link (network / broker).
MaxFaults == 2
\* The millisecond counter is observed up to this value in the control loop.
MaxMillis == 60000

\* ------------------------------------------------------- program constants
HEARTBEAT_INTERVAL == 60000
RETRY_WINDOW == 5000
STATUS_PIXELS == 5
FLASH_COUNT == 3
TwoPow16 == 65536
device_id == "A1B2C3D4"
TOPIC_SET == "lights/A1B2C3D4/set"
TOPIC_STATE == "lights/A1B2C3D4/state"
TOPIC_ANNOUNCE == "devices/announce"

\* ------------------------------------------------------------ C arithmetic
\* uint8_t narrowing of an int
U8(x) == x % 256
\* C integer division (truncation toward zero)
CDiv(a, b) == IF a >= 0 THEN a \div b ELSE -((-a) \div b)
\* Arduino map(x, in_min, in_max, out_min, out_max)
map(x, in_min, in_max, out_min, out_max) ==
  CDiv((x - in_min) * (out_max - out_min), in_max - in_min) + out_min
\* FastLED scale8 (FASTLED_SCALE8_FIXED): (i * (1 + scale)) >> 8
scale8(i, scale) == (i * (1 + scale)) \div 256
\* FastLED scale8_video: never scales a non-zero value to zero
scale8_video(i, scale) ==
  ((i * scale) \div 256) + (IF i > 0 /\ scale > 0 THEN 1 ELSE 0)
qadd8(a, b) == IF a + b > 255 THEN 255 ELSE a + b
qsub8(a, b) == IF a - b < 0 THEN 0 ELSE a - b

\* unsigned long (32 bits) as two 16-bit halves <<high, low>>
U32(n) == <<(n \div TwoPow16) % TwoPow16, n % TwoPow16>>
\* a + d modulo 2^32, for 0 <= d < 2^31
add32(a, d) ==
  <<(a[1] + ((a[2] + d) \div TwoPow16)) % TwoPow16, (a[2] + d) % TwoPow16>>
\* a - b modulo 2^32 (unsigned subtraction)
sub32(a, b) ==
  <<(a[1] - b[1] - (IF a[2] < b[2] THEN 1 ELSE 0)) % TwoPow16, (a[2] - b[2]) % TwoPow16>>
\* a >= c for an unsigned long a and a constant 0 <= c < 2^16
atLeast32(a, c) == a[1] > 0 \/ a[2] >= c
\* (x * y) modulo 2^16 for 16-bit x, y
mul16(x, y) == ((x % 256) * y + (((x \div 256) * y) % 256) * 256) % TwoPow16
\* (x * y) >> 16 for 16-bit x, y
mulhi16(x, y) == ((x \div 256) * y + (((x % 256) * y) \div 256)) \div 256

\* ------------------------------------------------------------------ pixels
Pixels == 1..NUM_LEDS          \* leds[i] of the source is leds[i+1] here
CRGB(r, g, b) == <<U8(r), U8(g), U8(b)>>
Black == <<0, 0, 0>>
Red == <<255, 0, 0>>
Green == <<0, 128, 0>>
Blue == <<0, 0, 255>>
Yellow == <<255, 255, 0>>
White == <<255, 255, 255>>
\* fill_solid(leds, n, c): the first n pixels become c
fill_solid(strip, n, c) == [i \in Pixels |-> IF i <= n THEN c ELSE strip[i]]
\* CRGB::nscale8 / nscale8x3
nscale8(c, scale) == <<scale8(c[1], scale), scale8(c[2], scale), scale8(c[3], scale)>>
\* CRGB::fadeToBlackBy(fade) on one pixel
fadePixel(c, fadeBy) == nscale8(c, 255 - fadeBy)
\* fadeToBlackBy(leds, NUM_LEDS, fadeBy)
fadeToBlackBy(strip, fadeBy) == [i \in Pixels |-> fadePixel(strip[i], fadeBy)]
\* CRGB::getLuma
getLuma(c) == scale8(c[1], 54) + scale8(c[2], 183) + scale8(c[3], 18)
\* CRGB operator+= (saturating per channel)
addPixel(c, d) == <<qadd8(c[1], d[1]), qadd8(c[2], d[2]), qadd8(c[3], d[3])>>

\* ------------------------------------------------- FastLED library numerics
\* random8()/random16(): a 16-bit linear congruential generator, rand16seed
NextSeed(s) == (s * 2053 + 13849) % 65536
RECURSIVE SeedAfter(_, _)
\* the seed after k further draws
SeedAfter(s, k) == IF k = 0 THEN s ELSE SeedAfter(NextSeed(s), k - 1)
\* value random8() returns when the draw left the seed at s
random8(s) == U8((s % 256) + (s \div 256))
\* random8(lim)
random8lim(s, lim) == (random8(s) * lim) \div 256
\* random8(min, lim)
random8range(s, min, lim) == random8lim(s, U8(lim - min)) + min
\* random16(lim) when the draw left the seed at s
random16lim(s, lim) == (lim * s) \div 65536

\* sin8: piecewise-linear 8-bit sine (b_m16_interleave table)
sin8_b == <<0, 49, 90, 117>>
sin8_m16 == <<49, 41, 27, 10>>
sin8(theta) ==
  LET q2 == (theta \div 64) % 2 = 1                  \* theta & 0x40
      off0 == IF q2 THEN 255 - theta ELSE theta
      offset == off0 % 64
      secoffset == (offset % 16) + (IF q2 THEN 1 ELSE 0)
      section == offset \div 16
      mx == (sin8_m16[section + 1] * secoffset) \div 16
      y == mx + sin8_b[section + 1]
  IN  U8((IF theta >= 128 THEN -y ELSE y) + 128)
\* beat88(bpm88) at time ms: ((ms * bpm88 * 280) mod 2^32) >> 16
beat88(bpm88, ms) ==
  LET k == bpm88 * 280
      kh == k \div TwoPow16
      kl == k % TwoPow16
  IN  (mul16(ms[1], kl) + ms[2] * kh + mulhi16(ms[2], kl)) % TwoPow16
\* beat8(bpm) for bpm < 256
beat8(bpm, ms) == beat88(bpm * 256, ms) \div 256
\* beatsin8(bpm, lowest, highest, 0, phase) at time ms
beatsin8(bpm, lowest, highest, phase, ms) ==
  lowest + scale8(sin8(U8(beat8(bpm, ms) + phase)), highest - lowest)

\* hsv2rgb_rainbow: the conversion applied when a CHSV is stored in a CRGB
hsv2rgb_rainbow(hue, sat, val) ==
  LET offset8 == (hue % 32) * 8
      third == scale8(offset8, 85)
      twothirds == scale8(offset8, 170)
      sec == hue \div 32
      base == CASE sec = 0 -> <<255 - third, third, 0>>
                [] sec = 1 -> <<171, 85 + third, 0>>
                [] sec = 2 -> <<171 - twothirds, 170 + third, 0>>
                [] sec = 3 -> <<0, 255 - third, third>>
                [] sec = 4 -> <<0, 171 - twothirds, 85 + twothirds>>
                [] sec = 5 -> <<third, 0, 255 - third>>
                [] sec = 6 -> <<85 + third, 0, 171 - third>>
                [] OTHER   -> <<170 + third, 0, 85 - third>>
      desat == scale8_video(255 - sat, 255 - sat)
      satscale == 255 - desat
      s1 == IF sat = 255 THEN base
            ELSE IF sat = 0 THEN <<255, 255, 255>>
            ELSE <<U8(scale8(base[1], satscale) + desat),
                   U8(scale8(base[2], satscale) + desat),
                   U8(scale8(base[3], satscale) + desat)>>
      v2 == scale8_video(val, val)
  IN  IF val = 255 THEN s1
      ELSE IF v2 = 0 THEN Black
      ELSE nscale8(s1, v2)
\* HeatColor(temperature): black -> red -> yellow -> white
HeatColor(temperature) ==
  LET t192 == scale8_video(temperature, 191)
      heatramp == (t192 % 64) * 4
  IN  IF t192 >= 128 THEN <<255, 255, heatramp>>
      ELSE IF t192 >= 64 THEN <<255, heatramp, 0>>
      ELSE <<heatramp, 0, 0>>

\* ------------------------------------------------------- JSON documents
\* A JSON value as ArduinoJson holds it: its type tag and its content.
JAbsent == [t |-> "absent", b |-> FALSE, i |-> 0, s |-> ""]
JNull == [t |-> "null", b |-> FALSE, i |-> 0, s |-> ""]
JBool(x) == [t |-> "bool", b |-> x, i |-> 0, s |-> ""]
JInt(x) == [t |-> "int", b |-> FALSE, i |-> x, s |-> ""]
JStr(x) == [t |-> "str", b |-> FALSE, i |-> 0, s |-> x]
\* The value under "color": an object with members r, g, b, or another value.
JNoColor == [t |-> "absent", r |-> JAbsent, g |-> JAbsent, b |-> JAbsent]
JColor(r, g, b) == [t |-> "obj", r |-> r, g |-> g, b |-> b]
JBadColor == [t |-> "str", r |-> JAbsent, g |-> JAbsent, b |-> JAbsent]
\* A payload: ok is the result of deserializeJson, the rest the root object.
Doc(id, p, br, c, e) ==
  [ok |-> TRUE, device_id |-> id, power |-> p, brightness |-> br, color |-> c, effect |-> e]
\* A payload deserializeJson rejects (truncated JSON, empty input)
BadPayload ==
  [ok |-> FALSE, device_id |-> JAbsent, power |-> JAbsent, brightness |-> JAbsent,
   color |-> JNoColor, effect |-> JAbsent]
EmptyDoc == Doc(JAbsent, JAbsent, JAbsent, JNoColor, JAbsent)
\* No message was delivered
NoMessage == [ok |-> FALSE, device_id |-> JNull, power |-> JAbsent, brightness |-> JAbsent,
              color |-> JNoColor, effect |-> JAbsent]

\* doc.containsKey(key)
containsKey(v) == v.t # "absent"
\* variant.as<bool>()
asBool(v) ==
  CASE v.t = "bool" -> v.b
    [] v.t = "int" -> v.i # 0
    [] v.t \in {"null", "absent"} -> FALSE
    [] OTHER -> TRUE
\* text -> number as parseNumber reads the sample strings
parseNumber(str) ==
  CASE str = "75" -> 75
    [] str = "300" -> 300
    [] OTHER -> 0
\* variant.as<int>() (the implicit conversion of  int x = doc[key])
asInt(v) ==
  CASE v.t = "int" -> v.i
    [] v.t = "bool" -> IF v.b THEN 1 ELSE 0
    [] v.t = "str" -> parseNumber(v.s)
    [] OTHER -> 0
\* variant.as<String>(): the text of a string, the JSON text of anything else
asString(v) ==
  CASE v.t = "str" -> v.s
    [] v.t = "int" -> ToString(v.i)
    [] v.t = "bool" -> IF v.b THEN "true" ELSE "false"
    [] OTHER -> "null"
\* variant.as<int>() in the place of  variant | defaultValue
JsonOrZero(v, defaultValue) == IF v.t = "int" THEN v.i ELSE 0
\* variant | defaultValue  (for int): the value when is<int>(), else the default
JsonOr(v, defaultValue) == IF v.t = "int" THEN v.i ELSE defaultValue

\* ------------------------------------------------------------------- state
VARIABLES
  powerOn, currentBrightness, currentR, currentG, currentB, currentEffect,
  lastHeartbeat, effectHue, effectPos, effectDirection,
  leds,            \* CRGB leds[NUM_LEDS]
  fastBrightness,  \* FastLED global brightness (setBrightness)
  heat,            \* static byte heat[NUM_LEDS] of effectFire
  strobeOn,        \* static bool on of effectStrobe
  rand16seed,      \* FastLED random generator state
  oob,             \* a pixel write outside leds[] has happened
  millis,          \* the millisecond counter
  wifiUp,          \* WiFi.status() == WL_CONNECTED
  brokerUp,        \* the broker accepts sessions
  mqttConnected,   \* mqtt.connected()
  subscribed,      \* the session holds the subscription to TOPIC_SET
  pc,              \* position of the single control thread
  inSetup,         \* connectMqtt was called from setup (else from loop)
  retryStart,      \* local start of the retry window in connectMqtt
  message,         \* payload handed to processCommand by the last step
  outbox,          \* what the last step handed to the transport, in order
  frames,          \* FastLED.show() calls made by the last step
  effectRan,       \* the last loop iteration called runEffect
  nCommands, nTicks, nFaults

state == <<powerOn, currentBrightness, currentR, currentG, currentB, currentEffect>>
cursors == <<effectHue, effectPos, effectDirection>>
strip == <<leds, fastBrightness>>
privates == <<heat, strobeOn, rand16seed, oob>>
link == <<wifiUp, brokerUp, mqttConnected, subscribed>>
control == <<pc, inSetup, retryStart>>
counters == <<nCommands, nTicks, nFaults>>
vars == <<state, cursors, strip, privates, link, control, counters,
          lastHeartbeat, millis, message, outbox, frames, effectRan>>

\* ------------------------------------------------------------ rendering
\* updateLeds(): what the strip and the driver brightness become
updateLeds(r, g, b, brightness) ==
  [leds |-> [i \in Pixels |-> CRGB(r, g, b)],
   bright |-> U8(map(brightness, 0, 100, 0, 255))]
\* showStatus(color) at time ms: strip cleared, first pixels pulsed
showStatus(color, ms) ==
  LET pulse == beatsin8(30, 40, 255, 0, ms)
  IN  [leds |-> [i \in Pixels |-> IF i <= STATUS_PIXELS
                                   THEN fadePixel(color, 255 - pulse) ELSE Black],
       bright |-> 255]
\* flashGreen(): three green flashes on the first pixels, ending black
flashGreen(cur) ==
  [leds |-> fill_solid(fill_solid(cur, STATUS_PIXELS, Green), STATUS_PIXELS, Black),
   bright |-> 255]

\* ------------------------------------------------------- state reporter
\* a state document with the green and blue channels exchanged
getStateJsonSwapped(p, br, r, g, b, e) ==
  Doc(JStr(device_id), JBool(p), JInt(br), JColor(JInt(r), JInt(b), JInt(g)), JStr(e))
\* a state document that reports the brightness on the driver's 0..255 scale
getStateJsonDriver(p, br, r, g, b, e) ==
  Doc(JStr(device_id), JBool(p), JInt(CDiv(br * 255, 100)),
      JColor(JInt(r), JInt(g), JInt(b)), JStr(e))
\* getStateJson(): the state document
getStateJson(p, br, r, g, b, e) ==
  Doc(JStr(device_id), JBool(p), JInt(br), JColor(JInt(r), JInt(g), JInt(b)), JStr(e))
\* mqtt.publish(topic, payload): handed to the transport only while connected
publish(connected, topic, payload) ==
  IF connected THEN <<[op |-> "publish", topic |-> topic, payload |-> payload]>> ELSE <<>>
\* publishState() for the given state
publishState(connected, p, br, r, g, b, e) ==
  publish(connected, TOPIC_STATE, getStateJson(p, br, r, g, b, e))
\* announceDevice(): identity, type and capabilities
announceDoc ==
  [device_id |-> device_id, type |-> "led_strip", ip |-> "192.168.1.50",
   capabilities |-> <<"color", "brightness", "effects">>]

\* ------------------------------------------------------------ effect engine
\* The effect engine's view of the program: what one tick reads and writes.
Engine ==
  [leds |-> leds, bright |-> fastBrightness, hue |-> effectHue, pos |-> effectPos,
   dir |-> effectDirection, heat |-> heat, strobe |-> strobeOn, seed |-> rand16seed,
   oob |-> oob]
\* the current colour as a pixel
CurrentColor == CRGB(currentR, currentG, currentB)
\* leds[index] = c, index 0-based as in the source; outside the array the
\* store lands outside leds[] and the strip itself is not changed
setPixel(s, index, c) ==
  IF index \in 0..(NUM_LEDS - 1) THEN [s EXCEPT ![index + 1] = c] ELSE s
outside(index) == index \notin 0..(NUM_LEDS - 1)
\* the orders in which three unsequenced draws can be evaluated
Orders == {<<1, 2, 3>>, <<1, 3, 2>>, <<2, 1, 3>>, <<2, 3, 1>>, <<3, 1, 2>>, <<3, 2, 1>>}

effectRainbow(e) ==
  [e EXCEPT !.leds = [i \in Pixels |-> hsv2rgb_rainbow(U8(e.hue + 7 * (i - 1)), 240, 255)],
            !.hue = U8(e.hue + 1)]

effectBreathing(e) ==
  LET breath == beatsin8(12, 20, 255, 0, millis)
  IN  [e EXCEPT !.leds = [i \in Pixels |-> CurrentColor],
                !.bright = U8(map(CDiv(breath * currentBrightness, 100), 0, 255, 0, 255))]

effectChase(e) ==
  [e EXCEPT !.leds = setPixel(fadeToBlackBy(e.leds, 40), e.pos, CurrentColor),
            !.oob = e.oob \/ outside(e.pos),
            !.pos = IF e.pos + 1 >= NUM_LEDS THEN 0 ELSE e.pos + 1]

effectSparkle(e) ==
  LET s1 == NextSeed(e.seed)
      s2 == NextSeed(s1)
      faded == fadeToBlackBy(e.leds, 20)
  IN  IF random8(s1) < 80
      THEN [e EXCEPT !.leds = setPixel(faded, random16lim(s2, NUM_LEDS), CurrentColor),
                     !.seed = s2]
      ELSE [e EXCEPT !.leds = faded, !.seed = s1]

effectFire(e, ord) ==
  LET \* cool down: one draw per pixel
      cooled == [i \in Pixels |->
                   qsub8(e.heat[i], random8range(SeedAfter(e.seed, i), 0, 35))]
      \* heat rises, from the top down, so each cell reads cooled neighbours
      risen == [i \in Pixels |->
                  IF i >= 3 THEN (cooled[i - 1] + cooled[i - 2] + cooled[i - 2]) \div 3
                  ELSE cooled[i]]
      s0 == SeedAfter(e.seed, NUM_LEDS + 1)
      spark == random8(s0) < 120
      target == random8lim(SeedAfter(s0, ord[1]), 7)
      from == random8lim(SeedAfter(s0, ord[2]), 7)
      amount == random8range(SeedAfter(s0, ord[3]), 160, 255)
      sparked == IF spark
                 THEN [risen EXCEPT ![target + 1] = qadd8(risen[from + 1], amount)]
                 ELSE risen
  IN  [e EXCEPT !.heat = sparked,
                !.leds = [i \in Pixels |-> HeatColor(sparked[i])],
                !.seed = IF spark THEN SeedAfter(s0, 3) ELSE s0]

effectConfetti(e, ord) ==
  LET first == NextSeed(e.seed)
      second == NextSeed(first)
      \* index and hue offset are unsequenced: either draw may come first
      idx == random16lim(IF ord[1] < ord[2] THEN first ELSE second, NUM_LEDS)
      off == random8lim(IF ord[1] < ord[2] THEN second ELSE first, 64)
      faded == fadeToBlackBy(e.leds, 10)
      added == addPixel(faded[idx + 1], hsv2rgb_rainbow(U8(e.hue + off), 200, 255))
  IN  [e EXCEPT !.leds = setPixel(faded, idx, added),
                !.hue = U8(e.hue + 1),
                !.seed = second]

effectCylon(e) ==
  LET moved == e.pos + e.dir
  IN  [e EXCEPT !.leds = setPixel(fadeToBlackBy(e.leds, 20), e.pos, CurrentColor),
                !.oob = e.oob \/ outside(e.pos),
                !.pos = moved,
                !.dir = IF moved >= NUM_LEDS - 1 \/ moved <= 0 THEN -e.dir ELSE e.dir]

effectStrobe(e) ==
  [e EXCEPT !.leds = [i \in Pixels |-> IF e.strobe THEN CurrentColor ELSE Black],
            !.strobe = ~e.strobe]

effectOcean(e) ==
  [e EXCEPT !.leds = [i \in Pixels |->
     LET wave == beatsin8(6 + ((i - 1) % 5), 100, 255, U8((i - 1) * 10), millis)
     IN  CRGB(0, wave \div 3, wave)]]

effectAurora(e) ==
  [e EXCEPT !.leds = [i \in Pixels |->
     LET hue == U8(e.hue + (i - 1) * 2)
         brightness == beatsin8(3 + ((i - 1) % 4), 50, 255, U8((i - 1) * 5), millis)
     IN  hsv2rgb_rainbow(U8(96 + (sin8(hue) \div 8)), 255, brightness)],
            !.hue = U8(e.hue + 1)]

effectCandle(e) ==
  [e EXCEPT !.leds = [i \in Pixels |->
     LET flicker == random8range(SeedAfter(e.seed, i), 180, 255)
     IN  CRGB(flicker, flicker \div 3, 0)],
            !.seed = SeedAfter(e.seed, NUM_LEDS)]

effectChristmas(e) ==
  LET faded == fadeToBlackBy(e.leds, 5)
      refilled == [i \in Pixels |->
                     IF getLuma(faded[i]) < 20
                     THEN (IF (i - 1) % 2 = 0 THEN CRGB(50, 0, 0) ELSE CRGB(0, 50, 0))
                     ELSE faded[i]]
      s1 == NextSeed(e.seed)
      s2 == NextSeed(s1)
      at == random16lim(s2, NUM_LEDS)
  IN  IF random8(s1) < 60
      THEN [e EXCEPT !.leds = setPixel(refilled, at, IF at % 2 = 0 THEN Red ELSE Green),
                     !.seed = s2]
      ELSE [e EXCEPT !.leds = refilled, !.seed = s1]

effectUSA(e, ord) ==
  LET section == NUM_LEDS \div 3
      bands == [i \in Pixels |->
                  IF i - 1 < section THEN Red
                  ELSE IF i - 1 < section * 2 THEN White ELSE Blue]
      first == NextSeed(e.seed)
      second == NextSeed(first)
      idx == random16lim(IF ord[1] < ord[2] THEN first ELSE second, NUM_LEDS)
      fade == random8range(IF ord[1] < ord[2] THEN second ELSE first, 50, 150)
  IN  [e EXCEPT !.leds = setPixel(bands, idx, fadePixel(bands[idx + 1], fade)),
                !.seed = second]

\* The catalog of effect names runEffect dispatches on
Catalog == {"rainbow", "breathing", "chase", "sparkle", "fire", "confetti", "cylon",
            "strobe", "ocean", "aurora", "candle", "christmas", "usa"}
\* a dispatch that falls back to the rainbow for every name
runEffectFallback(effect, e, ord) == effectRainbow(e)
\* runEffect(): one tick of the effect named by currentEffect; any other
\* name falls through every branch and draws nothing
runEffect(effect, e, ord) ==
  CASE effect = "rainbow" -> effectRainbow(e)
    [] effect = "breathing" -> effectBreathing(e)
    [] effect = "chase" -> effectChase(e)
    [] effect = "sparkle" -> effectSparkle(e)
    [] effect = "fire" -> effectFire(e, ord)
    [] effect = "confetti" -> effectConfetti(e, ord)
    [] effect = "cylon" -> effectCylon(e)
    [] effect = "strobe" -> effectStrobe(e)
    [] effect = "ocean" -> effectOcean(e)
    [] effect = "aurora" -> effectAurora(e)
    [] effect = "candle" -> effectCandle(e)
    [] effect = "christmas" -> effectChristmas(e)
    [] effect = "usa" -> effectUSA(e, ord)
    [] OTHER -> e
\* FastLED.show() calls one runEffect makes
effectFrames(effect) == IF effect \in Catalog THEN 1 ELSE 0

\* -------------------------------------------------------- command processor
\* "power" handler: the new power flag
powerAfter(doc, cur) == IF containsKey(doc.power) THEN asBool(doc.power) ELSE cur
\* "color" handler: the new value of one channel (member is "r", "g" or "b")
channelAfter(doc, member, cur) ==
  IF containsKey(doc.color) THEN JsonOr(doc.color[member], cur) ELSE cur
\* a "brightness" handler that stores the driver scale instead of the percentage
brightnessScaled(doc, cur) ==
  IF containsKey(doc.brightness) THEN map(asInt(doc.brightness), 0, 100, 0, 255) ELSE cur
\* "brightness" handler
brightnessAfter(doc, cur) ==
  IF containsKey(doc.brightness) THEN asInt(doc.brightness) ELSE cur
\* "effect" handler: the new effect name
effectAfter(doc, cur) == IF containsKey(doc.effect) THEN asString(doc.effect) ELSE cur
\* an "effect" handler that leaves the cursor where it is
cursorKept(doc, cur) == cur
\* "effect" handler: effectHue = 0, effectPos = 0
cursorAfter(doc, cur) == IF containsKey(doc.effect) THEN 0 ELSE cur
\* the strip after the "power" handler
renderPower(doc, d, p, r, g, b, br) ==
  IF ~containsKey(doc.power) THEN d
  ELSE IF ~p THEN [d EXCEPT !.leds = [i \in Pixels |-> Black]]
  ELSE updateLeds(r, g, b, br)
\* the strip after the "color" handler
renderColor(doc, d, r, g, b, br) ==
  IF containsKey(doc.color) THEN updateLeds(r, g, b, br) ELSE d
\* the strip after the "brightness" handler
renderBrightness(doc, d, r, g, b, br) ==
  IF containsKey(doc.brightness) THEN updateLeds(r, g, b, br) ELSE d
\* an "effect" handler that leaves the redraw to the next loop iteration
renderEffectLazy(doc, d, e, r, g, b, br) == d
\* the strip after the "effect" handler
renderEffect(doc, d, e, r, g, b, br) ==
  IF containsKey(doc.effect) /\ e = "none" THEN updateLeds(r, g, b, br) ELSE d
\* FastLED.show() calls of one processCommand
commandFrames(doc, e) ==
  (IF containsKey(doc.power) THEN 1 ELSE 0) + (IF containsKey(doc.color) THEN 1 ELSE 0)
  + (IF containsKey(doc.brightness) THEN 1 ELSE 0)
  + (IF containsKey(doc.effect) /\ e = "none" THEN 1 ELSE 0)

\* processCommand(message) once the payload is decoded: the four handlers in
\* their order, then publishState()
processDecoded(doc) ==
       LET p == powerAfter(doc, powerOn)
           r == channelAfter(doc, "r", currentR)
           g == channelAfter(doc, "g", currentG)
           b == channelAfter(doc, "b", currentB)
           br == brightnessAfter(doc, currentBrightness)
           e == effectAfter(doc, currentEffect)
           d0 == [leds |-> leds, bright |-> fastBrightness]
           d1 == renderPower(doc, d0, p, currentR, currentG, currentB, currentBrightness)
           d2 == renderColor(doc, d1, r, g, b, currentBrightness)
           d3 == renderBrightness(doc, d2, r, g, b, br)
           d4 == renderEffect(doc, d3, e, r, g, b, br)
       IN  /\ powerOn' = p
           /\ currentR' = r
           /\ currentG' = g
           /\ currentB' = b
           /\ currentBrightness' = br
           /\ currentEffect' = e
           /\ effectHue' = cursorAfter(doc, effectHue)
           /\ effectPos' = cursorAfter(doc, effectPos)
           /\ UNCHANGED effectDirection
           /\ leds' = d4.leds
           /\ fastBrightness' = d4.bright
           /\ frames' = commandFrames(doc, e)
           /\ outbox' = publishState(mqttConnected, p, br, r, g, b, e)

\* processCommand without the test of the decode result
processUnchecked(doc) == processDecoded(doc)
\* processCommand(message): a payload that does not decode is logged and dropped
processCommand(doc) ==
  IF ~doc.ok
  THEN /\ UNCHANGED <<state, cursors, strip>>
       /\ outbox' = <<>>
       /\ frames' = 0
  ELSE processDecoded(doc)

\* ------------------------------------------------------------------ inputs
\* one-key commands
CmdPower(v) == Doc(JAbsent, v, JAbsent, JNoColor, JAbsent)
CmdBrightness(v) == Doc(JAbsent, JAbsent, v, JNoColor, JAbsent)
CmdColor(c) == Doc(JAbsent, JAbsent, JAbsent, c, JAbsent)
CmdEffect(v) == Doc(JAbsent, JAbsent, JAbsent, JNoColor, v)
\* Commands within the documented ranges that the control loop receives
ValidCommands ==
  {CmdPower(JBool(TRUE)), CmdPower(JBool(FALSE)),
   CmdBrightness(JInt(40)),
   CmdColor(JColor(JInt(255), JInt(0), JInt(0))), CmdColor(JColor(JAbsent, JInt(128), JAbsent)),
   Doc(JAbsent, JBool(FALSE), JInt(100), JNoColor, JAbsent),
   Doc(JAbsent, JBool(FALSE), JAbsent, JNoColor, JStr("none")),
   Doc(JStr(device_id), JAbsent, JAbsent, JNoColor, JAbsent),
   EmptyDoc}
  \cup {CmdEffect(JStr(n)) : n \in Catalog \cup {"none", "zzz"}}
\* Decodable commands outside the documented ranges or of the wrong type
OddCommands ==
  {CmdBrightness(JInt(150)), CmdBrightness(JInt(-1)), CmdBrightness(JStr("abc")),
   CmdColor(JColor(JInt(300), JAbsent, JInt(-1))), CmdColor(JColor(JStr("x"), JInt(7), JNull)),
   CmdColor(JBadColor),
   CmdPower(JStr("off")), CmdPower(JNull),
   CmdEffect(JInt(42)),
   Doc(JAbsent, JInt(0), JStr("75"), JNoColor, JBool(TRUE))}
\* Everything the transport can deliver to the callback
Commands == ValidCommands \cup OddCommands \cup {BadPayload}
\* The commands delivered while the link is also failing and recovering
FewCommands ==
  {CmdPower(JBool(FALSE)), CmdPower(JBool(TRUE)),
   CmdColor(JColor(JInt(255), JInt(0), JInt(0))), CmdBrightness(JInt(150)),
   CmdEffect(JStr("chase")), CmdEffect(JStr("cylon")), CmdEffect(JStr("none")),
   BadPayload}

\* -------------------------------------------------------------------- boot
Init ==
  /\ powerOn = TRUE
  /\ currentBrightness = 100
  /\ currentR = 255
  /\ currentG = 255
  /\ currentB = 255
  /\ currentEffect = "none"
  /\ lastHeartbeat = U32(0)
  /\ effectHue = 0
  /\ effectPos = 0
  /\ effectDirection = 1
  /\ leds = [i \in Pixels |-> Black]
  /\ fastBrightness = 255
  /\ heat = [i \in Pixels |-> 0]
  /\ strobeOn = FALSE
  /\ rand16seed = 1337
  /\ oob = FALSE
  /\ millis = U32(0)
  /\ wifiUp = FALSE
  /\ brokerUp \in BOOLEAN
  /\ mqttConnected = FALSE
  /\ subscribed = FALSE
  /\ pc = "setup"
  /\ inSetup = TRUE
  /\ retryStart = U32(0)
  /\ message = NoMessage
  /\ outbox = <<>>
  /\ frames = 0
  /\ effectRan = FALSE
  /\ nCommands = 0
  /\ nTicks = 0
  /\ nFaults = 0

\* what a step that neither draws nor talks leaves behind
Quiet == message' = NoMessage /\ outbox' = <<>> /\ frames' = 0

\* setup(): the driver is initialised, the strip cleared and flushed
Setup ==
  /\ pc = "setup"
  /\ leds' = [i \in Pixels |-> Black]
  /\ fastBrightness' = 255
  /\ frames' = 1
  /\ message' = NoMessage /\ outbox' = <<>>
  /\ pc' = "wifi"
  /\ UNCHANGED <<state, cursors, privates, link, inSetup, retryStart, counters,
                 lastHeartbeat, millis, effectRan>>

\* connectWiFi(): one turn of the wait loop
ConnectWiFiWait ==
  /\ pc = "wifi" /\ ~wifiUp
  /\ leds' = showStatus(Red, millis).leds
  /\ fastBrightness' = showStatus(Red, millis).bright
  /\ frames' = 1
  /\ message' = NoMessage /\ outbox' = <<>>
  /\ UNCHANGED <<state, cursors, privates, link, control, counters,
                 lastHeartbeat, millis, effectRan>>

\* connectWiFi() returns; setup goes on to connectMqtt()
ConnectWiFiDone ==
  /\ pc = "wifi" /\ wifiUp
  /\ pc' = "mqtt" /\ inSetup' = TRUE
  /\ Quiet
  /\ UNCHANGED <<state, cursors, strip, privates, link, retryStart, counters,
                 lastHeartbeat, millis, effectRan>>

\* a session opened without the announcement
sessionOpeningSilent ==
  <<[op |-> "subscribe", topic |-> TOPIC_SET, payload |-> EmptyDoc]>>
\* what a successful mqtt.connect is followed by, in order
sessionOpening ==
  <<[op |-> "subscribe", topic |-> TOPIC_SET, payload |-> EmptyDoc],
    [op |-> "publish", topic |-> TOPIC_ANNOUNCE, payload |-> announceDoc]>>

\* connectMqtt(): mqtt.connect succeeds: subscribe, announce, flashGreen
ConnectMqttOk ==
  /\ pc = "mqtt" /\ ~mqttConnected
  /\ wifiUp /\ brokerUp
  /\ mqttConnected' = TRUE
  /\ subscribed' = TRUE
  /\ outbox' = sessionOpening
  /\ leds' = flashGreen(leds).leds
  /\ fastBrightness' = flashGreen(leds).bright
  /\ frames' = 2 * FLASH_COUNT
  /\ message' = NoMessage
  /\ UNCHANGED <<state, cursors, privates, wifiUp, brokerUp, control, counters,
                 lastHeartbeat, millis, effectRan>>

\* connectMqtt(): mqtt.connect fails: the retry window opens
ConnectMqttFail ==
  /\ pc = "mqtt" /\ ~mqttConnected
  /\ ~(wifiUp /\ brokerUp)
  /\ pc' = "retry"
  /\ retryStart' = millis
  /\ Quiet
  /\ UNCHANGED <<state, cursors, strip, privates, link, inSetup, counters,
                 lastHeartbeat, millis, effectRan>>

\* connectMqtt(): one yellow pulse inside the retry window
RetryPulse ==
  /\ pc = "retry"
  /\ ~atLeast32(sub32(millis, retryStart), RETRY_WINDOW)
  /\ leds' = showStatus(Yellow, millis).leds
  /\ fastBrightness' = showStatus(Yellow, millis).bright
  /\ frames' = 1
  /\ message' = NoMessage /\ outbox' = <<>>
  /\ UNCHANGED <<state, cursors, privates, link, control, counters,
                 lastHeartbeat, millis, effectRan>>

\* a retry loop that opens a new window instead of trying the broker again
RetryRestart ==
  /\ pc = "retry"
  /\ atLeast32(sub32(millis, retryStart), RETRY_WINDOW)
  /\ retryStart' = millis
  /\ Quiet
  /\ UNCHANGED <<state, cursors, strip, privates, link, pc, inSetup, counters,
                 lastHeartbeat, millis, effectRan>>
\* connectMqtt(): the retry window is over, back to the while condition
RetryDone ==
  /\ pc = "retry"
  /\ atLeast32(sub32(millis, retryStart), RETRY_WINDOW)
  /\ pc' = "mqtt"
  /\ retryStart' = U32(0)
  /\ Quiet
  /\ UNCHANGED <<state, cursors, strip, privates, link, inSetup, counters,
                 lastHeartbeat, millis, effectRan>>

\* connectMqtt() returns: to loop() from setup, to mqtt.loop() from loop
ConnectMqttReturn ==
  /\ pc = "mqtt" /\ mqttConnected
  /\ pc' = IF inSetup THEN "loop" ELSE "poll"
  /\ inSetup' = FALSE
  /\ Quiet
  /\ UNCHANGED <<state, cursors, strip, privates, link, retryStart, counters,
                 lastHeartbeat, millis, effectRan>>

\* loop(): if (!mqtt.connected()) connectMqtt();
LoopTop ==
  /\ pc = "loop"
  /\ pc' = IF mqttConnected THEN "poll" ELSE "mqtt"
  /\ inSetup' = FALSE
  /\ effectRan' = FALSE
  /\ Quiet
  /\ UNCHANGED <<state, cursors, strip, privates, link, retryStart, counters,
                 lastHeartbeat, millis>>

\* loop(): mqtt.loop() with nothing to deliver
PollIdle ==
  /\ pc = "poll"
  /\ pc' = "beat"
  /\ Quiet
  /\ UNCHANGED <<state, cursors, strip, privates, link, inSetup, retryStart, counters,
                 lastHeartbeat, millis, effectRan>>

\* loop(): mqtt.loop() delivers one message to onMqttMessage -> processCommand
PollCommand(cmds) ==
  /\ pc = "poll"
  /\ mqttConnected /\ subscribed
  /\ nCommands < MaxCommands
  /\ \E m \in cmds :
       /\ message' = m
       /\ processCommand(m)
  /\ nCommands' = nCommands + 1
  /\ pc' = "beat"
  /\ UNCHANGED <<privates, link, inSetup, retryStart, nTicks, nFaults,
                 lastHeartbeat, millis, effectRan>>

\* a heartbeat test that compares the two times without wrapping
heartbeatDuePlain(now, last) ==
  LET hi == now[1] - last[1]
  IN  hi > 1 \/ (hi >= 0 /\ hi * TwoPow16 + now[2] - last[2] >= HEARTBEAT_INTERVAL)
\* the heartbeat test of loop(): now - lastHeartbeat >= HEARTBEAT_INTERVAL
heartbeatDue(now, last) == atLeast32(sub32(now, last), HEARTBEAT_INTERVAL)

\* loop(): the heartbeat
Heartbeat ==
  /\ pc = "beat"
  /\ IF heartbeatDue(millis, lastHeartbeat)
     THEN /\ lastHeartbeat' = millis
          /\ outbox' = publishState(mqttConnected, powerOn, currentBrightness,
                                    currentR, currentG, currentB, currentEffect)
     ELSE /\ UNCHANGED lastHeartbeat
          /\ outbox' = <<>>
  /\ message' = NoMessage /\ frames' = 0
  /\ pc' = "effect"
  /\ UNCHANGED <<state, cursors, strip, privates, link, inSetup, retryStart, counters,
                 millis, effectRan>>

\* a guard that looks at the effect name only
effectNamed(p, e) == e # "none"
\* the guard of the effect tick in loop()
effectActive(p, e) == p /\ e # "none"

\* loop(): no effect tick in this iteration
EffectSkip ==
  /\ pc = "effect"
  /\ ~effectActive(powerOn, currentEffect)
  /\ pc' = "loop"
  /\ Quiet
  /\ UNCHANGED <<state, cursors, strip, privates, link, inSetup, retryStart, counters,
                 lastHeartbeat, millis, effectRan>>

\* loop(): runEffect(), for at most limit ticks in a behaviour
EffectTickUpTo(limit) ==
  /\ pc = "effect"
  /\ effectActive(powerOn, currentEffect)
  /\ nTicks < limit
  /\ \E ord \in Orders :
       LET e == runEffect(currentEffect, Engine, ord)
       IN  /\ leds' = e.leds
           /\ fastBrightness' = e.bright
           /\ effectHue' = e.hue
           /\ effectPos' = e.pos
           /\ effectDirection' = e.dir
           /\ heat' = e.heat
           /\ strobeOn' = e.strobe
           /\ rand16seed' = e.seed
           /\ oob' = e.oob
  /\ frames' = effectFrames(currentEffect)
  /\ effectRan' = TRUE
  /\ nTicks' = nTicks + 1
  /\ message' = NoMessage /\ outbox' = <<>>
  /\ pc' = "loop"
  /\ UNCHANGED <<state, link, inSetup, retryStart, nCommands, nFaults,
                 lastHeartbeat, millis>>
EffectTick == EffectTickUpTo(MaxTicks)

\* ------------------------------------------------------------- environment
\* Time passes
ElapseStep == HEARTBEAT_INTERVAL \div 2
Elapse ==
  /\ millis[1] = 0 /\ millis[2] + ElapseStep <= MaxMillis
  /\ millis' = add32(millis, ElapseStep)
  /\ UNCHANGED <<state, cursors, strip, privates, link, control, counters,
                 lastHeartbeat, message, outbox, frames, effectRan>>

\* The network association comes up
WiFiAssociate ==
  /\ ~wifiUp
  /\ wifiUp' = TRUE
  /\ UNCHANGED <<state, cursors, strip, privates, brokerUp, mqttConnected, subscribed,
                 control, counters, lastHeartbeat, millis, message, outbox, frames, effectRan>>

\* The network association is lost, and the broker session with it
WiFiLost ==
  /\ wifiUp /\ nFaults < MaxFaults
  /\ wifiUp' = FALSE /\ mqttConnected' = FALSE /\ subscribed' = FALSE
  /\ nFaults' = nFaults + 1
  /\ UNCHANGED <<state, cursors, strip, privates, brokerUp, control, nCommands, nTicks,
                 lastHeartbeat, millis, message, outbox, frames, effectRan>>

\* The broker starts accepting sessions
BrokerStart ==
  /\ ~brokerUp
  /\ brokerUp' = TRUE
  /\ UNCHANGED <<state, cursors, strip, privates, wifiUp, mqttConnected, subscribed,
                 control, counters, lastHeartbeat, millis, message, outbox, frames, effectRan>>

\* The broker goes away, and the session with it
BrokerStop ==
  /\ brokerUp /\ nFaults < MaxFaults
  /\ brokerUp' = FALSE /\ mqttConnected' = FALSE /\ subscribed' = FALSE
  /\ nFaults' = nFaults + 1
  /\ UNCHANGED <<state, cursors, strip, privates, wifiUp, control, nCommands, nTicks,
                 lastHeartbeat, millis, message, outbox, frames, effectRan>>

\* Only the broker session is lost (keep-alive), network and broker stay up
SessionLost ==
  /\ mqttConnected /\ nFaults < MaxFaults
  /\ mqttConnected' = FALSE /\ subscribed' = FALSE
  /\ nFaults' = nFaults + 1
  /\ UNCHANGED <<state, cursors, strip, privates, wifiUp, brokerUp, control, nCommands,
                 nTicks, lastHeartbeat, millis, message, outbox, frames, effectRan>>

\* --------------------------------------------------------- specifications
Connecting ==
  \/ Setup
  \/ ConnectWiFiWait
  \/ ConnectWiFiDone
  \/ ConnectMqttOk
  \/ ConnectMqttFail
  \/ RetryPulse
  \/ RetryDone
  \/ ConnectMqttReturn
Environment ==
  \/ Elapse
  \/ WiFiAssociate
  \/ WiFiLost
  \/ BrokerStart
  \/ BrokerStop
  \/ SessionLost
Looping(cmds) ==
  \/ LoopTop
  \/ PollIdle
  \/ PollCommand(cmds)
  \/ Heartbeat
  \/ EffectSkip
  \/ EffectTick

\* The firmware from boot, with a failing and recovering link
Next == Connecting \/ Environment \/ Looping(FewCommands)
Spec == Init /\ [][Next]_vars

\* The state in which loop() runs on an open session at time ms, untouched by
\* commands, with the previous heartbeat at time last
Running(last, ms) ==
  /\ powerOn = TRUE
  /\ currentBrightness = 100
  /\ currentR = 255
  /\ currentG = 255
  /\ currentB = 255
  /\ currentEffect = "none"
  /\ lastHeartbeat = last
  /\ effectHue = 0
  /\ effectPos = 0
  /\ effectDirection = 1
  /\ leds = [i \in Pixels |-> Black]
  /\ fastBrightness = 255
  /\ heat = [i \in Pixels |-> 0]
  /\ strobeOn = FALSE
  /\ rand16seed = 1337
  /\ oob = FALSE
  /\ millis = ms
  /\ wifiUp = TRUE
  /\ brokerUp = TRUE
  /\ mqttConnected = TRUE
  /\ subscribed = TRUE
  /\ pc = "loop"
  /\ inSetup = FALSE
  /\ retryStart = U32(0)
  /\ message = NoMessage
  /\ outbox = <<>>
  /\ frames = 0
  /\ effectRan = FALSE
  /\ nCommands = 0
  /\ nTicks = 0
  /\ nFaults = 0
\* The state in which setup() has returned with a session, at time ms
Booted(ms) == Running(U32(0), ms)

\* The control loop on a link that stays up, with every command
InitLoop == \E ms \in {U32(0), U32(HEARTBEAT_INTERVAL)} : Booted(ms)
NextLoop == Looping(Commands)
SpecLoop == InitLoop /\ [][NextLoop]_vars

\* The control loop on a link that stays up, with commands within the ranges
NextValid == Looping(ValidCommands)
SpecValid == InitLoop /\ [][NextValid]_vars

\* processCommand applied once to a sample of the states the loop can be in
Animations ==
  {<<"none", 0, 0, 1>>, <<"none", 0, 0, -1>>, <<"rainbow", 5, 0, 1>>,
   <<"chase", 0, 3, 1>>, <<"cylon", 0, 3, -1>>, <<"zzz", 0, 0, 1>>}
InitCmd ==
  /\ powerOn \in BOOLEAN
  /\ currentBrightness \in {0, 100, 150}
  /\ currentR \in {0, 255}
  /\ currentG \in {0, 255}
  /\ currentB \in {255, 300}
  /\ \E a \in Animations :
       /\ currentEffect = a[1]
       /\ effectHue = a[2]
       /\ effectPos = a[3]
       /\ effectDirection = a[4]
  /\ leds \in {[i \in Pixels |-> Black], [i \in Pixels |-> IF i = 2 THEN Red ELSE Black]}
  /\ fastBrightness \in {255, 102}
  /\ lastHeartbeat = U32(0)
  /\ heat = [i \in Pixels |-> 0]
  /\ strobeOn = FALSE
  /\ rand16seed = 1337
  /\ oob = FALSE
  /\ millis = U32(0)
  /\ wifiUp = TRUE
  /\ brokerUp = TRUE
  /\ mqttConnected = TRUE
  /\ subscribed = TRUE
  /\ pc = "poll"
  /\ inSetup = FALSE
  /\ retryStart = U32(0)
  /\ message = NoMessage
  /\ outbox = <<>>
  /\ frames = 0
  /\ effectRan = FALSE
  /\ nCommands = 0
  /\ nTicks = 0
  /\ nFaults = 0
NextCmd == PollCommand(Commands)
SpecCmd == InitCmd /\ [][NextCmd]_vars

\* ================================================================ properties
\* the step hands a payload to processCommand
Delivered == pc = "poll" /\ message' # NoMessage
\* the step hands a payload to processCommand and the payload decodes
Decoded == Delivered /\ message'.ok
AllBlack(s) == \A i \in Pixels : s[i] = Black
\* the strip shows exactly the solid render of colour (r, g, b) at brightness br
SolidRender(s, bright, r, g, b, br) ==
  /\ \A i \in Pixels : s[i] = <<r % 256, g % 256, b % 256>>
  /\ bright = CDiv(br * 255, 100) % 256
ConnectedPcs == {"loop", "poll", "beat", "effect"}

\* C1: merge semantics.  After a decoded command, every top-level field whose
\* key is absent from the command, and every colour channel absent from the
\* command's colour object, has its value from before the command.
C1_Merge ==
  [][Decoded =>
       /\ (message'.power.t = "absent" => powerOn' = powerOn)
       /\ (message'.brightness.t = "absent" => currentBrightness' = currentBrightness)
       /\ (message'.effect.t = "absent" => currentEffect' = currentEffect)
       /\ (message'.color.t = "absent" =>
             <<currentR', currentG', currentB'>> = <<currentR, currentG, currentB>>)
       /\ (message'.color.r.t = "absent" => currentR' = currentR)
       /\ (message'.color.g.t = "absent" => currentG' = currentG)
       /\ (message'.color.b.t = "absent" => currentB' = currentB)]_vars
\* a command carrying only the green channel was applied to a state whose other
\* fields all differ from the boot defaults
C1_Witness ==
  /\ pc = "beat"
  /\ message = CmdColor(JColor(JAbsent, JInt(128), JAbsent))
  /\ currentG = 128 /\ currentR = 0 /\ currentB = 300
  /\ currentBrightness = 150 /\ currentEffect = "cylon" /\ ~powerOn

\* C2: a payload that fails to decode changes neither the device state nor the
\* animation cursors, draws no frame, publishes nothing, and the loop goes on
\* to its heartbeat step.
C2_DecodeFailure ==
  [][(Delivered /\ ~message'.ok) =>
       /\ UNCHANGED <<state, cursors, strip>>
       /\ frames' = 0
       /\ outbox' = <<>>
       /\ pc' = "beat"]_vars
\* an undecodable payload arrived while an animation was running
C2_Witness ==
  /\ pc = "beat" /\ message = BadPayload
  /\ currentEffect = "chase" /\ nTicks > 0 /\ outbox = <<>>

\* C3: with commands inside the documented ranges only, brightness stays in
\* 0..100 and every colour channel in 0..255.
C3_BoundsUnderValid ==
  /\ currentBrightness \in 0..100
  /\ currentR \in 0..255
  /\ currentG \in 0..255
  /\ currentB \in 0..255
\* two valid commands have moved brightness and colour away from the defaults
C3_Witness ==
  /\ nCommands = 2 /\ currentBrightness = 40
  /\ <<currentR, currentG, currentB>> = <<255, 128, 255>>

\* C4: for every sequence of decodable commands, whatever integers they
\* carry, brightness is in 0..100 and every colour channel in 0..255.
C4_BoundsAlways ==
  /\ 0 <= currentBrightness /\ currentBrightness <= 100
  /\ \A ch \in {currentR, currentG, currentB} : 0 <= ch /\ ch <= 255

\* C5: a recognised key with a value of the wrong type leaves its field as it
\* was, and the well-formed keys of the same command are applied.
Malformed(v, type) == v.t \notin {"absent", type}
C5_NoCorruption ==
  [][Decoded =>
       /\ (Malformed(message'.power, "bool") => powerOn' = powerOn)
       /\ (Malformed(message'.brightness, "int") => currentBrightness' = currentBrightness)
       /\ (Malformed(message'.effect, "str") => currentEffect' = currentEffect)
       /\ (Malformed(message'.color.r, "int") => currentR' = currentR)
       /\ (Malformed(message'.color.g, "int") => currentG' = currentG)
       /\ (Malformed(message'.color.b, "int") => currentB' = currentB)
       /\ (message'.power.t = "bool" => powerOn' = message'.power.b)
       /\ (message'.brightness.t = "int" => currentBrightness' = message'.brightness.i)
       /\ (message'.effect.t = "str" => currentEffect' = message'.effect.s)
       /\ (message'.color.r.t = "int" => currentR' = message'.color.r.i)
       /\ (message'.color.g.t = "int" => currentG' = message'.color.g.i)
       /\ (message'.color.b.t = "int" => currentB' = message'.color.b.i)]_vars

\* C6: every decoded command is acknowledged by exactly one publish to the
\* state topic within the same call, carrying the state as the command left it.
C6_Ack ==
  [][Decoded =>
       outbox' =
         <<[op |-> "publish", topic |-> TOPIC_STATE,
            payload |->
              [ok |-> TRUE, device_id |-> JStr(device_id),
               power |-> JBool(powerOn'),
               brightness |-> JInt(currentBrightness'),
               color |-> [t |-> "obj", r |-> JInt(currentR'), g |-> JInt(currentG'),
                          b |-> JInt(currentB')],
               effect |-> JStr(currentEffect')]]>>]_vars
\* a command without any key was acknowledged with the state a previous
\* command had set
C6_Witness ==
  /\ pc = "beat" /\ message = EmptyDoc /\ Len(outbox) = 1
  /\ outbox[1].payload.color.g = JInt(128)

\* C7: after a command that sets power to false the strip is all black, and
\* while power is off no loop iteration renders an effect frame.
C7_PowerOff ==
  [][/\ (Decoded /\ message'.power.t # "absent" /\ ~powerOn') => AllBlack(leds')
     /\ (pc = "effect" /\ ~powerOn) =>
           (frames' = 0 /\ UNCHANGED <<strip, cursors, privates>>)]_vars

\* C8: a command with effect "none" arriving while another effect is active
\* leaves the strip as the solid render of the current colour and brightness
\* (the values as the 8-bit pixel and the 8-bit driver scale hold them), and
\* while the effect is "none" no loop step without a command changes the strip.
C8_BackToSolid ==
  [][/\ (Decoded /\ message'.effect.t # "absent" /\ currentEffect # "none"
            /\ currentEffect' = "none") =>
           SolidRender(leds', fastBrightness', currentR', currentG', currentB',
                       currentBrightness')
     /\ (pc \in ConnectedPcs /\ currentEffect = "none" /\ message' = NoMessage) =>
           UNCHANGED strip]_vars
\* "none" arrived after an animation had drawn frames, and the strip is solid
C8_Witness ==
  /\ pc = "beat" /\ message = CmdEffect(JStr("none"))
  /\ nTicks > 0 /\ nCommands = 2
  /\ \A i \in Pixels : leds[i] = White
  /\ fastBrightness = 255

\* C9: a session is opened by a subscribe to the command topic followed by
\* exactly one announce; the loop is entered from connectMqtt only with a
\* subscribed session; and while there is no session no command is processed
\* and no state message is published.
NoStatePublish(box) == \A k \in 1..Len(box) : box[k].topic # TOPIC_STATE
C9_ReconnectOrder ==
  [][/\ (~mqttConnected /\ mqttConnected') =>
           /\ Len(outbox') = 2
           /\ outbox'[1].op = "subscribe" /\ outbox'[1].topic = TOPIC_SET
           /\ outbox'[2].op = "publish" /\ outbox'[2].topic = TOPIC_ANNOUNCE
           /\ pc' = "mqtt"
     /\ (pc = "mqtt" /\ pc' \in ConnectedPcs) => (mqttConnected /\ subscribed)
     /\ ~mqttConnected =>
           /\ (message' = NoMessage \/ message' = message)
           /\ (NoStatePublish(outbox') \/ outbox' = outbox)]_vars
\* a session was lost after commands had been processed and a new one is open
C9_Witness ==
  /\ nCommands > 0 /\ nFaults > 0
  /\ pc = "mqtt" /\ mqttConnected /\ subscribed
  /\ Len(outbox) = 2 /\ frames = 2 * FLASH_COUNT

\* C10: from the control loop, a lost network association leads back to the
\* network wait (red indication) before the broker is tried again, and a lost
\* broker session alone leads directly to the broker attempt.
C10_FailureRouting ==
  [][(pc = "loop" /\ pc' # "loop" /\ ~mqttConnected) =>
       pc' = (IF wifiUp THEN "mqtt" ELSE "wifi")]_vars

\* ------------------------------------------------ retrying the broker forever
\* Time passes in quarters of the counter's range, so that it wraps
LongStep == (TwoPow16 \div 4) * TwoPow16
ElapseLong ==
  /\ millis' = add32(millis, LongStep)
  /\ UNCHANGED <<state, cursors, strip, privates, link, control, counters,
                 lastHeartbeat, message, outbox, frames, effectRan>>
\* The firmware with no command arriving, on a link that fails and recovers
NextRetry ==
  \/ Connecting
  \/ WiFiAssociate
  \/ WiFiLost
  \/ BrokerStart
  \/ BrokerStop
  \/ SessionLost
  \/ ElapseLong
  \/ LoopTop
  \/ PollIdle
  \/ Heartbeat
  \/ EffectSkip
\* The single control thread always takes its next step and the clock runs.
\* The retry loop reads the clock every 20 ms and the window stays over for
\* almost the whole range of the counter, so it cannot miss the end of it.
FairRetry ==
  /\ WF_vars(Setup)
  /\ WF_vars(ConnectWiFiDone)
  /\ WF_vars(ConnectMqttOk)
  /\ WF_vars(ConnectMqttFail)
  /\ SF_vars(RetryDone)
  /\ WF_vars(ConnectMqttReturn)
  /\ WF_vars(LoopTop)
  /\ WF_vars(PollIdle)
  /\ WF_vars(Heartbeat)
  /\ WF_vars(EffectSkip)
  /\ WF_vars(ElapseLong)
SpecRetry == Init /\ [][NextRetry]_vars /\ FairRetry

\* b is a + e for some 0 <= e < window (window below 2^16)
Within(a, b, window) ==
  LET e == (b[2] - a[2]) % TwoPow16 IN e < window /\ add32(a, e) = b
Online == pc \in ConnectedPcs /\ mqttConnected

\* C11: a failed broker attempt opens one retry window at the time of the
\* failure, the window ends only after RETRY_WINDOW ms and leads back to the
\* next attempt, an attempt either opens the session or a window (there is no
\* giving up); and if network and broker stay available from some time on, the
\* device is online again and again.
C11_RetryForever ==
  /\ [][/\ (pc = "mqtt" /\ pc' = "retry") => (~mqttConnected /\ retryStart' = millis)
        /\ (pc = "retry" /\ pc' # "retry") =>
              (pc' = "mqtt" /\ ~Within(retryStart, millis, RETRY_WINDOW))
        /\ (pc = "mqtt" /\ ~mqttConnected /\ pc' # "mqtt") => pc' = "retry"
        /\ (pc = "retry" /\ Within(retryStart, millis, RETRY_WINDOW)) => pc' = "retry"]_vars
  /\ (<>[](wifiUp /\ brokerUp)) => []<>Online
\* a failed attempt's retry window is over and the broker is available again
C11_Witness ==
  /\ pc = "retry" /\ ~Within(retryStart, millis, RETRY_WINDOW)
  /\ wifiUp /\ brokerUp /\ ~mqttConnected /\ ~inSetup

\* --------------------------------------------------------- unknown effects
Known == Catalog \cup {"none"}
\* C12: an effect name outside the catalogue is stored as the current effect
\* and reported in the published state, and every effect tick of the loop under
\* such a name leaves the pixels and the driver brightness as they were and
\* shows no frame.
C12_UnknownEffect ==
  [][/\ (/\ Decoded
         /\ message'.effect = JStr(message'.effect.s)
         /\ message'.effect.s \notin Known) =>
           /\ currentEffect' = message'.effect.s
           /\ Len(outbox') = 1
           /\ outbox'[1].topic = TOPIC_STATE
           /\ outbox'[1].payload.effect = message'.effect
     /\ (pc = "effect" /\ powerOn /\ currentEffect \notin Known /\ nTicks' # nTicks) =>
           (UNCHANGED strip /\ frames' = 0)]_vars
\* the loop has ticked twice under an unknown name on a strip a colour command
\* had painted red
C12_Witness ==
  /\ currentEffect = "zzz" /\ powerOn /\ effectRan /\ nTicks >= 2
  /\ \A i \in Pixels : leds[i] = Red

\* ------------------------------------------------- the state payload, decoded
\* State payloads of a sample of the device states within the documented ranges
StatePayloads ==
  {getStateJson(p, br, r, g, b, e) :
     p \in BOOLEAN, br \in {0, 40, 100}, r \in {0, 255}, g \in {0, 128, 255},
     b \in {0, 255}, e \in {"none", "chase", "usa"}}
\* processCommand applied to state payloads, from states within the ranges
InitRound == InitCmd /\ currentBrightness <= 100 /\ currentB <= 255
NextRound == PollCommand(StatePayloads)
SpecRound == InitRound /\ [][NextRound]_vars

\* C13: a state payload handed to the command processor decodes, leaves the
\* device in the state the payload describes (power, brightness, each colour
\* channel, effect), and the state payload published from that state is
\* identical to the payload received.
C13_RoundTrip ==
  [][Delivered =>
       /\ message'.ok
       /\ message'.power = JBool(powerOn')
       /\ message'.brightness = JInt(currentBrightness')
       /\ message'.color.r = JInt(currentR')
       /\ message'.color.g = JInt(currentG')
       /\ message'.color.b = JInt(currentB')
       /\ message'.effect = JStr(currentEffect')
       /\ Len(outbox') = 1
       /\ outbox'[1].payload = message']_vars
\* a state payload differing from the boot defaults in every field was decoded
\* and published again unchanged
C13_Witness ==
  /\ pc = "beat" /\ nCommands = 1 /\ Len(outbox) = 1 /\ outbox[1].payload = message
  /\ message.power = JBool(FALSE) /\ message.brightness = JInt(40)
  /\ message.color = JColor(JInt(0), JInt(128), JInt(0)) /\ message.effect = JStr("usa")
  /\ ~powerOn /\ currentBrightness = 40 /\ currentEffect = "usa"
  /\ <<currentR, currentG, currentB>> = <<0, 128, 0>>

\* ------------------------------------------------------ one loop iteration
\* C14: an effect tick happens only at the end of a loop iteration, after the
\* transport was polled and the heartbeat tested in that iteration, with power
\* on and an effect other than "none" in the state as the poll left it, and
\* not twice in one iteration; an iteration on an open session, or one that
\* reopened the session, polls the transport before anything else.
C14_EffectGuard ==
  [][/\ (nTicks' # nTicks) =>
           /\ pc = "effect" /\ pc' = "loop"
           /\ powerOn /\ currentEffect # "none"
           /\ ~effectRan /\ effectRan'
           /\ nTicks' = nTicks + 1
     /\ (pc = "effect" /\ ~(powerOn /\ currentEffect # "none")) =>
           UNCHANGED <<strip, cursors, effectRan, nTicks>>
     /\ (pc' = "effect" /\ pc # "effect") => pc = "beat"
     /\ (pc' = "beat" /\ pc # "beat") => pc = "poll"
     /\ (pc = "loop" /\ pc' # "loop") =>
           /\ ~effectRan'
           /\ pc' = IF mqttConnected THEN "poll" ELSE "mqtt"
     /\ (pc \in {"mqtt", "retry"} /\ ~inSetup /\ pc' \notin {"mqtt", "retry"}) =>
           (pc' = "poll" /\ mqttConnected)]_vars
\* the first command switched the chase on and the same iteration went on to
\* tick it once
C14_Witness ==
  /\ pc = "loop" /\ effectRan /\ nTicks = 1 /\ nCommands = 1
  /\ powerOn /\ currentEffect = "chase" /\ effectPos = 1 /\ frames = 1

\* ------------------------------------------------------ status indication
\* C15: a step that shows the connecting status indication (red in the network
\* wait, yellow in the broker retry window) leaves every pixel after the first
\* STATUS_PIXELS as it was.
C15_StatusFrame ==
  [][(pc \in {"wifi", "retry"} /\ frames' = 1) =>
       \A i \in Pixels : i > STATUS_PIXELS => leds'[i] = leds[i]]_vars

\* ------------------------------------------------- the heartbeat and the wrap
\* Time passes, also across the wrap of the 32-bit counter
ElapseWrap ==
  /\ \/ millis[1] = TwoPow16 - 1
     \/ millis[1] = 0 /\ millis[2] + ElapseStep <= MaxMillis
  /\ millis' = add32(millis, ElapseStep)
  /\ UNCHANGED <<state, cursors, strip, privates, link, control, counters,
                 lastHeartbeat, message, outbox, frames, effectRan>>
\* Times of a previous heartbeat shortly before the counter wraps
LastBeats ==
  {U32(0), <<TwoPow16 - 1, 0>>, <<TwoPow16 - 1, TwoPow16 - HEARTBEAT_INTERVAL>>,
   <<TwoPow16 - 1, TwoPow16 - ElapseStep>>}
\* The control loop long after boot, the counter about to wrap
InitBeat ==
  \E last \in LastBeats : \E e \in {0, ElapseStep - 1, ElapseStep} :
    Running(last, add32(last, e))
BeatCommands == {CmdColor(JColor(JInt(255), JInt(0), JInt(0))), CmdEffect(JStr("chase"))}
NextBeat == Looping(BeatCommands) \/ ElapseWrap
SpecBeat == InitBeat /\ [][NextBeat]_vars

\* C16: the heartbeat step of a loop iteration publishes the state and sets
\* the heartbeat time to the current counter exactly when the counter is not
\* within HEARTBEAT_INTERVAL ms after the previous heartbeat time, counting
\* modulo 2^32; no other step, a command acknowledgment in particular, changes
\* the heartbeat time; and a new heartbeat time is never within
\* HEARTBEAT_INTERVAL ms after the previous one.
C16_HeartbeatTiming ==
  [][/\ (pc = "beat" /\ pc' # "beat") =>
           IF Within(lastHeartbeat, millis, HEARTBEAT_INTERVAL)
           THEN lastHeartbeat' = lastHeartbeat /\ outbox' = <<>>
           ELSE /\ lastHeartbeat' = millis
                /\ Len(outbox') = 1
                /\ outbox'[1].topic = TOPIC_STATE
     /\ (pc # "beat") => lastHeartbeat' = lastHeartbeat
     /\ (Decoded /\ Len(outbox') = 1) => lastHeartbeat' = lastHeartbeat
     /\ (lastHeartbeat' # lastHeartbeat) =>
           ~Within(lastHeartbeat, lastHeartbeat', HEARTBEAT_INTERVAL)]_vars
\* a heartbeat was published after the counter had wrapped since the previous
\* one, in an iteration that had acknowledged a command
C16_Witness ==
  /\ pc = "effect" /\ Len(outbox) = 1 /\ outbox[1].topic = TOPIC_STATE
  /\ lastHeartbeat = millis /\ millis[1] = 0 /\ millis[2] < ElapseStep
  /\ nCommands >= 1

\* ------------------------------------------------------- cursors on a command
\* C17: a decoded command that has an "effect" key sets the hue cursor and the
\* position cursor to 0, whatever the effect was and whatever the key names;
\* a decoded command without that key leaves both cursors as they were.
C17_CursorReset ==
  [][Decoded =>
       IF message'.effect.t # "absent"
       THEN effectHue' = 0 /\ effectPos' = 0
       ELSE effectHue' = effectHue /\ effectPos' = effectPos]_vars
\* the effect already running was named again and its position cursor is back
\* at 0 with the direction still backwards
C17_Witness ==
  /\ pc = "beat" /\ message = CmdEffect(JStr("cylon")) /\ currentEffect = "cylon"
  /\ effectPos = 0 /\ effectHue = 0 /\ effectDirection = -1

\* ------------------------------------------------------ the scanning effects
\* Enough ticks for the scanner to cross the strip, turn round and go on
ScanTicks == NUM_LEDS + 2
\* An effect tick while every pixel write so far was inside leds[]; what the
\* program does after a write outside the array is not defined and is not
\* followed further
ScanTick == ~oob /\ EffectTickUpTo(ScanTicks)
ScanCommands == {CmdEffect(JStr("cylon")), CmdEffect(JStr("chase"))}
\* The control loop on a link that stays up, with the two scanning effects
NextScan ==
  \/ LoopTop
  \/ PollIdle
  \/ PollCommand(ScanCommands)
  \/ Heartbeat
  \/ EffectSkip
  \/ ScanTick
SpecScan == Booted(U32(0)) /\ [][NextScan]_vars

\* C18: no pixel was written outside leds[], and whenever the loop is about to
\* tick the chase or the cylon the position cursor is an index of leds[].
C18_IndexInRange ==
  /\ ~oob
  /\ (pc = "effect" /\ powerOn /\ currentEffect \in {"chase", "cylon"}) =>
        effectPos \in 0..(NUM_LEDS - 1)

\* ------------------------------------------------- what the strip shows
\* C19: in every state with power off, every pixel of the strip is black.
C19_DarkWhileOff == ~powerOn => AllBlack(leds)

\* C20: whenever the device is in its control loop on an open session with
\* power on and no effect, the strip shows the solid render of the current
\* colour at the current brightness.
C20_SolidWhileIdle ==
  (pc \in ConnectedPcs /\ mqttConnected /\ powerOn /\ currentEffect = "none") =>
     SolidRender(leds, fastBrightness, currentR, currentG, currentB, currentBrightness)
====
